---------------------------- MODULE Spec2Model ----------------------------
(***************************************************************************)
(* Model of coze's front-end (src/src/gui.rs): the App's consumer loop     *)
(* around the asynchronous Generator, and the fuzzy HistoryNavigator.      *)
(*                                                                         *)
(* Strings are sequences of characters; a character is a one-element name. *)
(* "U+00C9" and "U+00E9" stand for the non-ASCII letters E-acute (upper)   *)
(* and e-acute (lower), so that str::to_lowercase (Unicode) and            *)
(* eq_ignore_ascii_case (ASCII only) are modelled by what each one does.   *)
(***************************************************************************)
EXTENDS Integers, Sequences, FiniteSets, TLC

(***************************************************************************)
(* Bounds of the model.                                                    *)
(***************************************************************************)
\* longest history the navigator is started on (NavSpec)
MaxHistory == 3
\* most up/down calls followed between two resets
MaxCalls == 3

\* usize::MAX, the cursor's sentinel; narrowed to the model checker's integer
\* range (every use is clamped by min before any arithmetic).
USIZE_MAX == 2147483647

(***************************************************************************)
(* Characters and strings.                                                 *)
(***************************************************************************)
\* char::to_ascii_lowercase: only A-Z change.
to_ascii_lowercase(c) ==
    CASE c = "B" -> "b"
      [] c = "E" -> "e"
      [] c = "F" -> "f"
      [] c = "H" -> "h"
      [] c = "O" -> "o"
      [] OTHER -> c

\* char lower-casing as done by str::to_lowercase: Unicode aware.
to_lowercase_char(c) ==
    IF c = "U+00C9" THEN "U+00E9" ELSE to_ascii_lowercase(c)

\* str::to_lowercase
to_lowercase(s) == [i \in 1..Len(s) |-> to_lowercase_char(s[i])]

\* char::eq_ignore_ascii_case
char_eq_ignore_ascii_case(a, b) == to_ascii_lowercase(a) = to_ascii_lowercase(b)

\* str::eq_ignore_ascii_case
eq_ignore_ascii_case(s, t) ==
    /\ Len(s) = Len(t)
    /\ \A i \in 1..Len(s) : char_eq_ignore_ascii_case(s[i], t[i])

Min(a, b) == IF a <= b THEN a ELSE b

saturating_sub(a, b) == IF a >= b THEN a - b ELSE 0

saturating_add(a, b) == IF a > USIZE_MAX - b THEN USIZE_MAX ELSE a + b

\* Option<String>
None == [some |-> FALSE, val |-> <<>>]

Some(v) == [some |-> TRUE, val |-> v]

\* struct Prompt
Prompt(p, r) == [prompt |-> p, reply |-> r]

\* history.get(i), zero-based: is the index in range?
InRange(history, i) == i >= 0 /\ i < Len(history)

\* history[i], zero-based
At(history, i) == history[i + 1]

(***************************************************************************)
(* HistoryNavigator                                                        *)
(***************************************************************************)
\* HistoryNavigator::new
NavigatorNew == [pattern |-> <<>>, cursor |-> USIZE_MAX]

\* Mutant: reset that installs the pattern but keeps the cursor.
ResetKeepsCursor(m, pattern) == [pattern |-> to_lowercase(pattern), cursor |-> m.cursor]

\* HistoryNavigator::reset
Reset(m, pattern) == [pattern |-> to_lowercase(pattern), cursor |-> USIZE_MAX]

\* The peekable pattern iterator after the `for c in text.chars()` loop:
\* what is left of the pattern once the text has been scanned.
RECURSIVE PatternLeft(_, _)
PatternLeft(pit, text) ==
    IF text = <<>> \/ pit = <<>> THEN pit
    ELSE IF char_eq_ignore_ascii_case(Head(pit), Head(text))
         THEN PatternLeft(Tail(pit), Tail(text))
         ELSE PatternLeft(pit, Tail(text))

\* Mutant: is_match without the "skip repeated prompts" test.
IsMatchNoSkip(m, history, text) == PatternLeft(m.pattern, text) = <<>>

\* Mutant: is_match that compares the text with the current entry exactly.
IsMatchSkipExact(m, history, text) ==
    LET match_current == IF InRange(history, m.cursor)
                         THEN text = At(history, m.cursor).prompt
                         ELSE FALSE
    IN  IF match_current THEN FALSE ELSE PatternLeft(m.pattern, text) = <<>>

\* HistoryNavigator::is_match
is_match(m, history, text) ==
    LET match_current == IF InRange(history, m.cursor)
                         THEN eq_ignore_ascii_case(text, At(history, m.cursor).prompt)
                         ELSE FALSE
    IN  IF match_current THEN FALSE ELSE PatternLeft(m.pattern, text) = <<>>

\* The loop of HistoryNavigator::up, entered with the local `cursor`.
RECURSIVE UpLoop(_, _, _)
UpLoop(m, history, cursor) ==
    LET c == saturating_sub(cursor, 1)
    IN  IF InRange(history, c) /\ is_match(m, history, At(history, c).prompt)
        THEN [m |-> [m EXCEPT !.cursor = c], ret |-> Some(At(history, c).prompt)]
        ELSE IF c = 0
             THEN [m |-> m, ret |-> None]
             ELSE UpLoop(m, history, c)

\* Mutant: a failed up leaves the cursor on index 0.
UpParksAtZero(m, history) ==
    IF history = <<>> THEN [m |-> m, ret |-> None]
    ELSE LET r == UpLoop(m, history, Min(m.cursor, Len(history)))
         IN  IF r.ret.some THEN r ELSE [m |-> [m EXCEPT !.cursor = 0], ret |-> None]

\* HistoryNavigator::up: the navigator after the call and the value returned.
Up(m, history) ==
    IF history = <<>> THEN [m |-> m, ret |-> None]
    ELSE UpLoop(m, history, Min(m.cursor, Len(history)))

\* The loop of HistoryNavigator::down, entered with the local `cursor`.
RECURSIVE DownLoop(_, _, _)
DownLoop(m, history, cursor) ==
    LET c == saturating_add(cursor, 1)
    IN  IF InRange(history, c)
        THEN IF is_match(m, history, At(history, c).prompt)
             THEN [m |-> [m EXCEPT !.cursor = c], ret |-> Some(At(history, c).prompt)]
             ELSE DownLoop(m, history, c)
        ELSE [m |-> m, ret |-> None]

\* HistoryNavigator::down
Down(m, history) ==
    IF history = <<>> THEN [m |-> m, ret |-> None]
    ELSE DownLoop(m, history, Min(m.cursor, Len(history) - 1))


(***************************************************************************)
(* Generator facade and worker (module crate::generator).                  *)
(***************************************************************************)
\* most prompts submitted in one run
MaxPrompts == 2
\* most fragments the engine produces in one run
MaxFragments == 2

\* Message::Token(PromptId, String)
Token(id, s) == [kind |-> "Token", id |-> id, text |-> s]

\* Message::Error(String)
Error(msg) == [kind |-> "Error", id |-> 0, text |-> msg]

\* Generator::next_message: non-blocking, at most one pending message.
next_message(q) ==
    IF q = <<>> THEN [msg |-> [some |-> FALSE, val |-> Error(<<>>)], rest |-> q]
    ELSE [msg |-> [some |-> TRUE, val |-> Head(q)], rest |-> Tail(q)]

\* The text of the engine's j-th fragment for a prompt.
Fragment(j) ==
    CASE j = 1 -> <<"1">>
      [] j = 2 -> <<"2">>
      [] j = 3 -> <<"3">>
      [] OTHER -> <<"n">>

\* The number of fragments produced so far.
RECURSIVE TotalLen(_)
TotalLen(ss) == IF ss = <<>> THEN 0 ELSE Len(Head(ss)) + TotalLen(Tail(ss))

\* the engine's failure text
EngineFailure == <<"!">>

(***************************************************************************)
(* Inputs.                                                                 *)
(***************************************************************************)
HelloWorld == <<"h","e","l","l","o"," ","w","o","r","l","d">>
HelpMe == <<"h","e","l","p"," ","m","e">>
Hi == <<"h","i">>
Foo == <<"f","o","o">>
FooUpper == <<"F","O","O">>
Bar == <<"b","a","r">>
EAcuteUpper == <<"U+00C9">>
EAcuteLower == <<"U+00E9">>

\* prompts a history handed to the navigator may hold
NavPrompts == {HelloWorld, HelpMe, Hi, Foo, FooUpper, Bar, EAcuteUpper, EAcuteLower}

\* filter texts the navigator is reset to
Filters == {<<>>, <<"h","e">>, <<"H","E">>, EAcuteUpper}

\* texts the user leaves in the prompt field
TypedTexts == {<<"B"," ">>}

\* histories restored by App::new from egui's storage
PersistedHistories == {<<Prompt(<<"b"," ","a">>, <<"r">>)>>}

RECURSIVE SeqsUpTo(_, _)
SeqsUpTo(S, n) ==
    IF n = 0 THEN {<<>>}
    ELSE LET shorter == SeqsUpTo(S, n - 1)
         IN  shorter \cup {Append(q, x) : q \in shorter, x \in S}

(***************************************************************************)
(* State.                                                                  *)
(***************************************************************************)
VARIABLES
    prompt,           \* App.prompt
    last_prompt_id,   \* App.last_prompt_id
    history,          \* App.state.history
    error,            \* App.error
    matcher,          \* App.matcher
    pc,               \* the handler of update() the consumer is about to reach
    minted,           \* Generator: the last PromptId minted
    requests,         \* Generator: prompts submitted, not yet taken by the worker
    queue,            \* Generator: the delivery queue
    stop_requested,   \* Generator: stop() was called
    current,          \* worker: the PromptId being generated, 0 when idle
    produced,         \* history variable: fragments produced, per PromptId
    entry_id,         \* history variable: the PromptId each entry was submitted with
    filter,           \* history variable: the text given to the last reset
    calls,            \* history variable: up/down calls since the last reset (NavSpec)
    surfaced          \* history variable: last prompt returned since the last reset

app_vars == <<prompt, last_prompt_id, error, pc>>
gen_vars == <<minted, requests, queue, stop_requested, current, produced>>
nav_vars == <<matcher, filter, calls, surfaced>>
vars == <<prompt, last_prompt_id, history, error, matcher, pc, minted, requests,
          queue, stop_requested, current, produced, entry_id, filter, calls, surfaced>>

Call(op, pre, r) == [op |-> op, pre |-> pre, ret |-> r.ret, post |-> r.m]

(***************************************************************************)
(* App: helpers of the handlers.                                           *)
(***************************************************************************)
IsWhitespace(c) == c = " "

RECURSIVE trim_start(_)
trim_start(s) ==
    IF s # <<>> /\ IsWhitespace(Head(s)) THEN trim_start(Tail(s)) ELSE s

RECURSIVE trim_end(_)
trim_end(s) ==
    IF s # <<>> /\ IsWhitespace(s[Len(s)]) THEN trim_end(SubSeq(s, 1, Len(s) - 1)) ELSE s

\* str::trim
trim(s) == trim_end(trim_start(s))

\* Mutant: tokens are appended whatever PromptId they carry.
OnTokenAnyId(h, last_id, id, s) ==
    IF h # <<>>
    THEN [h EXCEPT ![Len(h)].reply = @ \o s]
    ELSE h

\* Mutant: the reply that grows is the first entry's.
OnTokenFirstEntry(h, last_id, id, s) ==
    IF last_id = id /\ h # <<>>
    THEN [h EXCEPT ![1].reply = @ \o s]
    ELSE h

\* App::update, the Message::Token arm: the history after Token(id, s).
OnToken(h, last_id, id, s) ==
    IF last_id = id /\ h # <<>>
    THEN [h EXCEPT ![Len(h)].reply = @ \o s]
    ELSE h

\* Mutant: the flush loops while the queue is empty.
FlushWhileNone(msg) == ~msg.some

\* App::send_prompt, the condition of the flush loop.
FlushContinues(msg) == msg.some

\* The handlers of one frame, in the order update() reaches them.
Stage(p) ==
    CASE p = "poll" -> 0
      [] p = "escape" -> 1
      [] p = "up" -> 2
      [] p = "down" -> 3
      [] p = "clear" -> 4
      [] p = "enter" -> 5
      [] p = "flush" -> 6
      [] p = "typed" -> 7

\* The consumer has polled and not yet passed handler p in this frame: a
\* handler whose key is not pressed is passed without a step.
Reaches(p) == Stage(pc) >= 1 /\ Stage(pc) <= Stage(p) /\ pc # "flush"

\* The frame can end and the next one begin: no handler is left that must
\* run (the flush loop of send_prompt must).
FrameCanEnd == pc # "flush"

(***************************************************************************)
(* Initial state: App::new.                                                *)
(***************************************************************************)
Init ==
    /\ prompt = <<>>
    /\ last_prompt_id = 0
    /\ history \in PersistedHistories
    /\ error = None
    /\ matcher = NavigatorNew
    /\ pc = "poll"
    /\ minted = 0
    /\ requests = <<>>
    /\ queue = <<>>
    /\ stop_requested = FALSE
    /\ current = 0
    /\ produced = [id \in 1..MaxPrompts |-> <<>>]
    /\ entry_id = [i \in 1..Len(history) |-> 0]
    /\ filter = <<>>
    /\ calls = <<>>
    /\ surfaced = None

(***************************************************************************)
(* The worker's execution context.                                         *)
(***************************************************************************)
\* The worker takes the next submitted prompt.
WorkerStart ==
    /\ current = 0
    /\ requests # <<>>
    /\ current' = Head(requests)
    /\ requests' = Tail(requests)
    /\ stop_requested' = FALSE
    /\ UNCHANGED <<prompt, last_prompt_id, history, error, matcher, pc, minted,
                   queue, produced, entry_id, filter, calls, surfaced>>

\* The engine yields one more fragment of the current request.
WorkerProduce ==
    /\ current # 0
    /\ TotalLen(produced) < MaxFragments
    /\ LET s == Fragment(Len(produced[current]) + 1)
       IN  /\ queue' = Append(queue, Token(current, s))
           /\ produced' = [produced EXCEPT ![current] = Append(@, s)]
    /\ UNCHANGED <<prompt, last_prompt_id, history, error, matcher, pc, minted,
                   requests, stop_requested, current, entry_id, filter, calls, surfaced>>

\* The request ends: the engine is done, or it was stopped or superseded.
WorkerEnd ==
    /\ current # 0
    /\ current' = 0
    /\ stop_requested' = FALSE
    /\ UNCHANGED <<prompt, last_prompt_id, history, error, matcher, pc, minted,
                   requests, queue, produced, entry_id, filter, calls, surfaced>>

\* The engine fails: one Error message, and the request stops.
WorkerFail ==
    /\ current # 0
    /\ queue' = Append(queue, Error(EngineFailure))
    /\ current' = 0
    /\ stop_requested' = FALSE
    /\ UNCHANGED <<prompt, last_prompt_id, history, error, matcher, pc, minted,
                   requests, produced, entry_id, filter, calls, surfaced>>

(***************************************************************************)
(* The consumer: one frame of App::update, its handlers in code order.     *)
(***************************************************************************)
\* update, at the start of a frame: match self.generator.next_message()
Poll ==
    /\ FrameCanEnd
    /\ LET r == next_message(queue)
       IN  /\ queue' = r.rest
           /\ history' = IF r.msg.some /\ r.msg.val.kind = "Token"
                         THEN OnToken(history, last_prompt_id, r.msg.val.id, r.msg.val.text)
                         ELSE history
           /\ error' = IF r.msg.some /\ r.msg.val.kind = "Error"
                       THEN Some(r.msg.val.text)
                       ELSE error
    /\ pc' = "escape"
    /\ UNCHANGED <<prompt, last_prompt_id, matcher, minted, requests, stop_requested,
                   current, produced, entry_id, filter, calls, surfaced>>

\* process_input: Key::Escape is pressed
Escape ==
    /\ Reaches("escape")
    /\ stop_requested' = TRUE
    /\ prompt' = <<>>
    /\ matcher' = Reset(matcher, <<>>)
    /\ filter' = <<>>
    /\ surfaced' = None
    /\ pc' = "up"
    /\ UNCHANGED <<last_prompt_id, history, error, minted, requests, queue, current,
                   produced, entry_id, calls>>

\* process_input: Key::ArrowUp is pressed
ArrowUp ==
    /\ Reaches("up")
    /\ LET r == Up(matcher, history)
       IN  /\ matcher' = r.m
           /\ prompt' = IF r.ret.some THEN r.ret.val ELSE prompt
           /\ surfaced' = IF r.ret.some THEN r.ret ELSE surfaced
    /\ pc' = "down"
    /\ UNCHANGED <<last_prompt_id, history, error, minted, requests, queue,
                   stop_requested, current, produced, entry_id, filter, calls>>

\* process_input: Key::ArrowDown is pressed
ArrowDown ==
    /\ Reaches("down")
    /\ LET r == Down(matcher, history)
       IN  /\ matcher' = r.m
           /\ prompt' = IF r.ret.some THEN r.ret.val ELSE prompt
           /\ surfaced' = IF r.ret.some THEN r.ret ELSE surfaced
    /\ pc' = "clear"
    /\ UNCHANGED <<last_prompt_id, history, error, minted, requests, queue,
                   stop_requested, current, produced, entry_id, filter, calls>>

\* update: the "Clear history" button is clicked
ClearHistory ==
    /\ Reaches("clear")
    /\ history' = <<>>
    /\ entry_id' = <<>>
    /\ pc' = "enter"
    /\ UNCHANGED <<prompt, last_prompt_id, error, matcher, minted, requests, queue,
                   stop_requested, current, produced, filter, calls, surfaced>>

\* update: Key::Enter is pressed; send_prompt up to its flush loop
Enter ==
    /\ Reaches("enter")
    /\ IF trim(prompt) # <<>>
       THEN /\ minted < MaxPrompts
            /\ pc' = "flush"
            /\ UNCHANGED <<prompt, matcher, filter, surfaced>>
       ELSE /\ prompt' = <<>>
            /\ matcher' = Reset(matcher, <<>>)
            /\ filter' = <<>>
            /\ surfaced' = None
            /\ pc' = "typed"
    /\ UNCHANGED <<last_prompt_id, history, error, minted, requests, queue,
                   stop_requested, current, produced, entry_id, calls>>

\* send_prompt: one turn of the flush loop; when the loop ends, the prompt is
\* sent, pushed on the history, and the prompt field and the navigator reset.
Flush ==
    /\ pc = "flush"
    /\ LET r == next_message(queue)
       IN  /\ queue' = r.rest
           /\ IF FlushContinues(r.msg)
              THEN UNCHANGED <<prompt, last_prompt_id, history, matcher, pc, minted,
                               requests, entry_id, filter, surfaced>>
              ELSE /\ minted' = minted + 1
                   /\ requests' = Append(requests, minted + 1)
                   /\ last_prompt_id' = minted + 1
                   /\ history' = Append(history, Prompt(trim(prompt), <<>>))
                   /\ entry_id' = Append(entry_id, minted + 1)
                   /\ prompt' = <<>>
                   /\ matcher' = Reset(matcher, <<>>)
                   /\ filter' = <<>>
                   /\ surfaced' = None
                   /\ pc' = "typed"
    /\ UNCHANGED <<error, stop_requested, current, produced, calls>>

\* update: the text field is edited, which resets the navigator
Typed ==
    /\ Reaches("typed")
    /\ \E text \in TypedTexts \cup {<<>>} :
         /\ text # prompt
         /\ prompt' = text
         /\ matcher' = Reset(matcher, text)
         /\ filter' = text
         /\ surfaced' = None
    /\ pc' = "poll"
    /\ UNCHANGED <<last_prompt_id, history, error, minted, requests, queue,
                   stop_requested, current, produced, entry_id, calls>>

Next ==
    \/ WorkerStart
    \/ WorkerProduce
    \/ WorkerEnd
    \/ WorkerFail
    \/ Poll
    \/ Escape
    \/ ArrowUp
    \/ ArrowDown
    \/ ClearHistory
    \/ Enter
    \/ Flush
    \/ Typed

Spec == Init /\ [][Next]_vars

\* The consumer's thread keeps running: a flush loop that can take a turn does.
LiveSpec == Spec /\ WF_vars(Flush)

(***************************************************************************)
(* The navigator on its own: any history, any filter, any calls.           *)
(***************************************************************************)
NavInit ==
    /\ prompt = <<>>
    /\ last_prompt_id = 0
    /\ history \in {[i \in 1..Len(ps) |-> Prompt(ps[i], <<>>)] : ps \in SeqsUpTo(NavPrompts, MaxHistory)}
    /\ error = None
    /\ matcher = NavigatorNew
    /\ pc = "poll"
    /\ minted = 0
    /\ requests = <<>>
    /\ queue = <<>>
    /\ stop_requested = FALSE
    /\ current = 0
    /\ produced = [id \in 1..MaxPrompts |-> <<>>]
    /\ entry_id = [i \in 1..Len(history) |-> 0]
    /\ filter = <<>>
    /\ calls = <<>>
    /\ surfaced = None

NavReset ==
    /\ \E text \in Filters :
         /\ matcher' = Reset(matcher, text)
         /\ filter' = text
    /\ calls' = <<>>
    /\ surfaced' = None
    /\ UNCHANGED <<app_vars, gen_vars, history, entry_id>>

NavUp ==
    /\ Len(calls) < MaxCalls
    /\ LET r == Up(matcher, history)
       IN  /\ matcher' = r.m
           /\ surfaced' = IF r.ret.some THEN r.ret ELSE surfaced
           /\ calls' = Append(calls, Call("up", matcher, r))
    /\ UNCHANGED <<app_vars, gen_vars, history, entry_id, filter>>

NavDown ==
    /\ Len(calls) < MaxCalls
    /\ LET r == Down(matcher, history)
       IN  /\ matcher' = r.m
           /\ surfaced' = IF r.ret.some THEN r.ret ELSE surfaced
           /\ calls' = Append(calls, Call("down", matcher, r))
    /\ UNCHANGED <<app_vars, gen_vars, history, entry_id, filter>>

NavNext == NavReset \/ NavUp \/ NavDown

NavSpec == NavInit /\ [][NavNext]_vars

(***************************************************************************)
(* Notions the properties are stated with.                                 *)
(***************************************************************************)
\* Two texts are equal ignoring (ASCII) case.
SameIgnoringCase(s, t) ==
    /\ Len(s) = Len(t)
    /\ \A i \in 1..Len(s) : to_ascii_lowercase(s[i]) = to_ascii_lowercase(t[i])

Front(s) == SubSeq(s, 1, Len(s) - 1)

\* The characters of f occur in t in the same order, ignoring (ASCII) case.
RECURSIVE IsSubsequenceIgnoringCase(_, _)
IsSubsequenceIgnoringCase(f, t) ==
    IF f = <<>> THEN TRUE
    ELSE IF t = <<>> THEN FALSE
    ELSE IF to_ascii_lowercase(f[Len(f)]) = to_ascii_lowercase(t[Len(t)])
         THEN IsSubsequenceIgnoringCase(Front(f), Front(t))
         ELSE IsSubsequenceIgnoringCase(f, Front(t))

\* Entry i matches filter f while the cursor is at cur: a subsequence match
\* that is not the text of the entry at the cursor.
Eligible(f, i, cur) ==
    /\ IsSubsequenceIgnoringCase(f, At(history, i).prompt)
    /\ ~(InRange(history, cur)
         /\ SameIgnoringCase(At(history, i).prompt, At(history, cur).prompt))

SetMax(S) == CHOOSE x \in S : \A y \in S : y <= x

SetMin(S) == CHOOSE x \in S : \A y \in S : x <= y

\* The call returned entry i and left the cursor on it.
Returned(c, i) == c.ret = Some(At(history, i).prompt) /\ c.post.cursor = i

\* The call returned nothing and changed nothing.
ReturnedNothing(c) == ~c.ret.some /\ c.post = c.pre

Prompts(h) == [i \in 1..Len(h) |-> h[i].prompt]

Ops == [k \in 1..Len(calls) |-> calls[k].op]

Rets == [k \in 1..Len(calls) |-> calls[k].ret]

Cursors == [k \in 1..Len(calls) |-> calls[k].post.cursor]

Successful == SelectSeq(calls, LAMBDA c : c.ret.some)

RECURSIVE Concat(_)
Concat(ss) == IF ss = <<>> THEN <<>> ELSE Head(ss) \o Concat(Tail(ss))

(***************************************************************************)
(* C1                                                                      *)
(***************************************************************************)
\* C1: the reply of every entry created by a submit is, at all times, the
\* concatenation of the first n fragments the worker produced for the
\* PromptId this submit returned, for some n: nothing tagged with another
\* id is in it, and no fragment of its own id is missing before a later one.
C1_ReplyIsPrefixOfProduced ==
    \A i \in 1..Len(history) :
        entry_id[i] # 0 =>
            \E n \in 0..Len(produced[entry_id[i]]) :
                history[i].reply = Concat(SubSeq(produced[entry_id[i]], 1, n))

\* A superseded prompt lost a fragment (it is in no reply) while the entry
\* of the prompt that superseded it received all of its own.
C1_Witness ==
    /\ Len(history) >= 2
    /\ entry_id[Len(history)] = 2
    /\ entry_id[Len(history) - 1] = 1
    /\ Len(history[Len(history) - 1].reply) < Len(Concat(produced[1]))
    /\ produced[2] # <<>>
    /\ history[Len(history)].reply = Concat(produced[2])
    /\ queue = <<>>

(***************************************************************************)
(* C2                                                                      *)
(***************************************************************************)
\* C2: every up call returns the entry with the largest index below
\* min(cursor, len) that contains the filter as a case-insensitive
\* subsequence and is not the text at the cursor, and moves the cursor
\* there; it returns nothing when there is none. For ["hello world",
\* "help me", "hi"] and filter "he", three ups give "help me",
\* "hello world", nothing.
C2_UpReturnsNearestMatch ==
    /\ \A k \in 1..Len(calls) :
         calls[k].op = "up" =>
            LET c == calls[k]
                cur == c.pre.cursor
                cand == {i \in 0..(Min(cur, Len(history)) - 1) : Eligible(filter, i, cur)}
            IN  IF cand = {} THEN ~c.ret.some ELSE Returned(c, SetMax(cand))
    /\ ( /\ Prompts(history) = <<HelloWorld, HelpMe, Hi>>
         /\ filter = <<"h","e">>
         /\ Ops = <<"up", "up", "up">> )
       => Rets = <<Some(HelpMe), Some(HelloWorld), None>>

\* The statement of C2 for the filters reset lower-cases to a text that is
\* the filter itself ignoring ASCII case (every filter of ASCII letters).
UpReturnsNearestMatchForAsciiFilters ==
    SameIgnoringCase(filter, to_lowercase(filter)) => C2_UpReturnsNearestMatch

(***************************************************************************)
(* C3                                                                      *)
(***************************************************************************)
C3_Case ==
    /\ Prompts(history) = <<Foo, Foo, Bar>>
    /\ filter = <<>>
    /\ Ops = <<"up", "up", "up">>

\* C3 as stated: for ["foo", "foo", "bar"] and the empty filter, three ups
\* give "bar" (index 2), "foo" (index 1), "foo" (index 0).
C3_ReachesEveryIndex ==
    C3_Case => /\ Rets = <<Some(Bar), Some(Foo), Some(Foo)>>
               /\ Cursors = <<2, 1, 0>>

\* C3 as amended: for ["foo", "foo", "bar"] and the empty filter, three ups
\* give "bar" (index 2), "foo" (index 1), then nothing, the cursor staying
\* at index 1; with the empty filter, up returns the nearest entry below the
\* cursor whose text differs from the text at the cursor, and nothing when
\* every entry below has that text.
C3_SkipsEqualTextBelowCursor ==
    /\ C3_Case => /\ Rets = <<Some(Bar), Some(Foo), None>>
                  /\ Cursors = <<2, 1, 1>>
    /\ filter = <<>> =>
         \A k \in 1..Len(calls) :
            calls[k].op = "up" =>
               LET c == calls[k]
                   cur == c.pre.cursor
                   differ == {i \in 0..(Min(cur, Len(history)) - 1) :
                                ~(InRange(history, cur)
                                  /\ SameIgnoringCase(At(history, i).prompt,
                                                      At(history, cur).prompt))}
               IN  IF differ = {} THEN ReturnedNothing(c) ELSE Returned(c, SetMax(differ))

C3_Witness == C3_Case /\ matcher.cursor = 1

(***************************************************************************)
(* C4                                                                      *)
(***************************************************************************)
\* C4: no up or down call returns a text equal, ignoring case, to the text
\* of the entry at the cursor before the call, and two successive
\* successful calls never return the same text.
C4_NeverReturnsTextAtCursor ==
    /\ \A k \in 1..Len(calls) :
         (calls[k].ret.some /\ InRange(history, calls[k].pre.cursor)) =>
            ~SameIgnoringCase(calls[k].ret.val, At(history, calls[k].pre.cursor).prompt)
    /\ \A k \in 1..(Len(Successful) - 1) :
         ~SameIgnoringCase(Successful[k].ret.val, Successful[k + 1].ret.val)

\* A call stepped over a neighbour that has the text at the cursor, in
\* another case, and returned an entry beyond it.
C4_Witness ==
    \E k \in 1..Len(calls) :
        LET c == calls[k]
        IN  /\ c.ret.some
            /\ c.op = "up"
            /\ InRange(history, c.pre.cursor)
            /\ c.post.cursor = c.pre.cursor - 2
            /\ SameIgnoringCase(At(history, c.pre.cursor - 1).prompt,
                                At(history, c.pre.cursor).prompt)
            /\ At(history, c.pre.cursor - 1).prompt # At(history, c.pre.cursor).prompt

(***************************************************************************)
(* C5                                                                      *)
(***************************************************************************)
\* C5: every down call returns the entry with the smallest index above
\* min(cursor, len - 1) that matches the filter (as for up) and moves the
\* cursor there, or returns nothing; from the sentinel it returns nothing
\* and the cursor stays the sentinel.
C5_DownReturnsNearestMatch ==
    \A k \in 1..Len(calls) :
        calls[k].op = "down" =>
           LET c == calls[k]
               cur == c.pre.cursor
               cand == {i \in (Min(cur, Len(history) - 1) + 1)..(Len(history) - 1) :
                          Eligible(filter, i, cur)}
           IN  /\ IF cand = {} THEN ~c.ret.some ELSE Returned(c, SetMin(cand))
               /\ cur = USIZE_MAX => (~c.ret.some /\ c.post.cursor = USIZE_MAX)

\* The statement of C5 for the filters reset lower-cases to a text that is
\* the filter itself ignoring ASCII case.
DownReturnsNearestMatchForAsciiFilters ==
    SameIgnoringCase(filter, to_lowercase(filter)) => C5_DownReturnsNearestMatch

(***************************************************************************)
(* C6                                                                      *)
(***************************************************************************)
\* C6: a cursor in range is on the entry whose prompt the last successful
\* up or down returned; with no such call since the last reset the cursor
\* is the sentinel.
C6_CursorIsOnSurfacedEntry ==
    /\ InRange(history, matcher.cursor) =>
         (surfaced.some /\ At(history, matcher.cursor).prompt = surfaced.val)
    /\ ~surfaced.some => matcher.cursor = USIZE_MAX

\* With a filter typed, the user browsed up past the submitted prompts to
\* an older entry.
C6_Witness ==
    /\ Len(history) >= 3
    /\ matcher.cursor = 0
    /\ matcher.pattern # <<>>
    /\ surfaced.some
    /\ prompt = surfaced.val
    /\ minted >= 2

(***************************************************************************)
(* C7                                                                      *)
(***************************************************************************)
\* C7: an up or down call that returns nothing leaves cursor and pattern
\* exactly as they were.
C7_FailedStepChangesNothing ==
    \A k \in 1..Len(calls) : ~calls[k].ret.some => calls[k].post = calls[k].pre

\* On a non-empty history: an up failed at the sentinel, an up failed with
\* the cursor inside the list, and a down failed.
C7_Witness ==
    /\ history # <<>>
    /\ Len(calls) = 3
    /\ calls[1].op = "up" /\ calls[1].ret.some /\ calls[1].post.cursor > 0
    /\ calls[2].op = "up" /\ ~calls[2].ret.some
    /\ calls[3].op = "down" /\ ~calls[3].ret.some

(***************************************************************************)
(* C8                                                                      *)
(***************************************************************************)
\* C8: a step that changes the history either appends the text of the
\* token at the head of the queue to the reply of the last entry and
\* nothing else, or pushes one entry with an empty reply, or clears the
\* history.
C8_OnlyLastReplyGrows ==
    [][ \/ history' = history
        \/ /\ Len(history') = Len(history)
           /\ queue # <<>>
           /\ Head(queue).kind = "Token"
           /\ history' = [history EXCEPT ![Len(history)].reply = @ \o Head(queue).text]
        \/ /\ Len(history') = Len(history) + 1
           /\ SubSeq(history', 1, Len(history)) = history
           /\ history'[Len(history')].reply = <<>>
        \/ history' = <<>>
      ]_vars

\* Two submitted entries both hold a reply: each grew while it was last.
C8_Witness ==
    /\ Len(history) >= 2
    /\ entry_id[Len(history)] = 2
    /\ entry_id[Len(history) - 1] = 1
    /\ history[Len(history)].reply # <<>>
    /\ history[Len(history) - 1].reply # <<>>

(***************************************************************************)
(* C9                                                                      *)
(***************************************************************************)
\* C9: whenever the consumer takes an Error message off the queue, the
\* message becomes the App's error and no reply changes.
C9_TakenErrorIsRecorded ==
    [][ ( /\ queue # <<>>
          /\ Head(queue).kind = "Error"
          /\ queue' = Tail(queue) )
        => ( /\ error' = Some(Head(queue).text)
             /\ \A i \in 1..Len(history) :
                  i <= Len(history') => history'[i].reply = history[i].reply )
      ]_vars

(***************************************************************************)
(* C10                                                                     *)
(***************************************************************************)
\* C10: a submit that entered the flush loop of send_prompt leaves it, with
\* the new PromptId recorded as the active one.
C10_FlushTerminates ==
    (pc = "flush") ~> (pc = "typed" /\ last_prompt_id = minted)

\* The flush loop runs while the worker is still producing the previous
\* prompt's fragments and some are queued.
C10_Witness ==
    /\ pc = "flush"
    /\ current # 0
    /\ current = last_prompt_id
    /\ TotalLen(produced) < MaxFragments
    /\ queue # <<>>

=============================================================================
